---- MODULE Spec2Model ----
(***************************************************************************)
(* async-counter: a shared counter (Arc<AtomicUsize>) with a fixed target  *)
(* that is itself a Future resolving once value >= target.  The model      *)
(* follows src/src/lib.rs: Counter::new / to, derive(Clone), inc / dec,    *)
(* the operator impls and Future::poll, with the executor that re-polls a  *)
(* task whose waker was woken.                                             *)
(***************************************************************************)
EXTENDS Integers, Sequences, FiniteSets, TLC

(* ------------------------------ bounds -------------------------------- *)

\* Width of usize in the model (the program's usize is wider).
UsizeBits == 6
\* Counter handles alive at once (the origin and its clones).
MaxHandles == 2
\* inc / dec calls in one run of the free-running specification.
MaxOps == 2
\* Ticks of the counting task of tests::counter_counts_up in the model.
MaxTicks == 4

Modulus == 2 ^ UsizeBits
MaxUsize == Modulus - 1

\* Producer threads and awaiting tasks.
Producers == {1, 2}
Consumers == {1, 2}

\* Arguments the free-running specification passes to += and -=, and the
\* (from, target) pairs it constructs the origin with.
Deltas == {0, 1, 2}
Froms == {0, MaxUsize}
Targets == {1, 2}

\* let target = 10; of both tests (and of the scenarios A and B).
TestTarget == 10

\* Scenario A: five increments of 2, one after another.
ScriptA == [i \in 1 .. 5 |-> [op |-> "add_assign", rhs |-> 2]]

\* tests::counter_counts_up_and_down: count += 5 three times, count -= 6, count += 3.
ScriptB == <<[op |-> "add_assign", rhs |-> 5], [op |-> "add_assign", rhs |-> 5],
             [op |-> "add_assign", rhs |-> 5], [op |-> "sub_assign", rhs |-> 6],
             [op |-> "add_assign", rhs |-> 3]>>

\* tests::counter_counts_up: count = count + 5 on every tick.
ScriptUp == [i \in 1 .. MaxTicks |-> [op |-> "add", rhs |-> 5]]

(* ------------------------------- state -------------------------------- *)

VARIABLES
    handles,    \* Counter structs alive: <<[value, target, waker]>>, value and waker are Arc pointers
    values,     \* heap of AtomicUsize cells, indexed by Arc pointer
    slots,      \* heap of Mutex<Option<Waker>> contents, indexed by Arc pointer
    locks,      \* holder of each mutex (0: free, p: producer p)
    ppc,        \* producer position inside inc / dec
    pself,      \* the Counter (&self) a producer's call is on
    taken,      \* the Option<Waker> a producer got from take()
    cpc,        \* consumer task position
    cself,      \* the Counter a consumer awaits (self of poll)
    loaded,     \* value read by the consumer's last poll
    loadAt,     \* number of fetch_add/fetch_sub done when that poll read
    netAt,      \* net when that poll read
    polls,      \* polls the consumer began
    result,     \* Poll::Ready(result)
    notified,   \* executor flag: the task's waker was woken
    fetched,    \* number of fetch_add/fetch_sub done so far
    net,        \* sum of += arguments minus sum of -= arguments, unbounded integer
    fired,      \* the wakers woken so far
    args        \* what the origin was constructed with: [from, target]

vars == <<handles, values, slots, locks, ppc, pself, taken, cpc, cself, loaded,
          loadAt, netAt, polls, result, notified, fetched, net, fired, args>>

prodVars == <<ppc, pself, taken, fired>>
consVars == <<cpc, cself, loaded, loadAt, netAt, polls, result, notified>>
heapVars == <<values, slots, locks>>

\* Option<Waker>: None, or the waker of a task (seq tells one clone from another).
None == [task |-> 0, seq |-> 0]
Waker(c, n) == [task |-> c, seq |-> n]

\* No Counter: a producer outside a call, a consumer that awaits nothing yet.
NoCounter == [value |-> 0, target |-> 0, waker |-> 0]

(* ---------------------------- construction ---------------------------- *)

\* Counter::new(from, target): fresh Arcs for the value and the waker slot.
New(from, target) ==
    [values |-> <<from>>,
     slots |-> <<None>>,
     locks |-> <<0>>,
     handles |-> <<[value |-> 1, target |-> target, waker |-> 1]>>]

\* Counter::to(target)
To(target) == New(0, target)

InitWith(c) ==
    /\ handles = c.handles
    /\ values = c.values
    /\ slots = c.slots
    /\ locks = c.locks
    /\ ppc = [p \in Producers |-> "idle"]
    /\ pself = [p \in Producers |-> NoCounter]
    /\ taken = [p \in Producers |-> None]
    /\ cpc = [c2 \in Consumers |-> "idle"]
    /\ cself = [c2 \in Consumers |-> NoCounter]
    /\ loaded = [c2 \in Consumers |-> 0]
    /\ loadAt = [c2 \in Consumers |-> 0]
    /\ netAt = [c2 \in Consumers |-> 0]
    /\ polls = [c2 \in Consumers |-> 0]
    /\ result = [c2 \in Consumers |-> 0]
    /\ notified = [c2 \in Consumers |-> FALSE]
    /\ fetched = 0
    /\ net = 0
    /\ fired = {}
    /\ args = [from |-> c.values[1], target |-> c.handles[1].target]

Init ==
    \E target \in Targets :
        \/ InitWith(To(target))
        \/ \E from \in Froms : InitWith(New(from, target))

Handles == DOMAIN handles

(* ------------------------------- clone -------------------------------- *)

\* A Clone where every field is deep-copied into fresh Arcs.
CloneDeep(h) ==
    /\ Len(handles) < MaxHandles
    /\ values' = Append(values, values[handles[h].value])
    /\ slots' = Append(slots, slots[handles[h].waker])
    /\ locks' = Append(locks, 0)
    /\ handles' = Append(handles, [value |-> Len(values) + 1,
                                   target |-> handles[h].target,
                                   waker |-> Len(slots) + 1])
    /\ UNCHANGED <<prodVars, consVars, fetched, net, args>>

\* A Clone that resets the target instead of copying it.
CloneDefaultTarget(h) ==
    /\ Len(handles) < MaxHandles
    /\ handles' = Append(handles, [value |-> handles[h].value,
                                   target |-> 0,
                                   waker |-> handles[h].waker])
    /\ UNCHANGED <<heapVars, prodVars, consVars, fetched, net, args>>

\* #[derive(Clone)]: Arc::clone of value and waker (same cells), target copied.
Clone(h) ==
    /\ Len(handles) < MaxHandles
    /\ handles' = Append(handles, [value |-> handles[h].value,
                                   target |-> handles[h].target,
                                   waker |-> handles[h].waker])
    /\ UNCHANGED <<heapVars, prodVars, consVars, fetched, net, args>>

(* --------------------------- inc / dec -------------------------------- *)

\* A fetch_add that saturates at usize::MAX instead of wrapping.
FetchAddSaturating(v, rhs) == IF v + rhs > MaxUsize THEN MaxUsize ELSE v + rhs

\* AtomicUsize::fetch_add(rhs, SeqCst): the new value, wrapping.
FetchAdd(v, rhs) == (v + rhs) % Modulus

\* A fetch_sub that saturates at 0 instead of wrapping.
FetchSubSaturating(v, rhs) == IF rhs > v THEN 0 ELSE v - rhs

\* AtomicUsize::fetch_sub(rhs, SeqCst): the new value, wrapping.
FetchSub(v, rhs) == (v - rhs) % Modulus

\* An inc that stores rhs instead of adding it.
IncStore(p, h, rhs) ==
    /\ ppc[p] = "idle"
    /\ values' = [values EXCEPT ![handles[h].value] = rhs]
    /\ pself' = [pself EXCEPT ![p] = handles[h]]
    /\ ppc' = [ppc EXCEPT ![p] = "lock"]
    /\ fetched' = fetched + 1
    /\ net' = net + rhs
    /\ UNCHANGED <<handles, slots, locks, taken, consVars, fired, args>>

\* An inc with the body of dec (fetch_sub).
IncAsDec(p, h, rhs) ==
    /\ ppc[p] = "idle"
    /\ values' = [values EXCEPT ![handles[h].value] = FetchSub(@, rhs)]
    /\ pself' = [pself EXCEPT ![p] = handles[h]]
    /\ ppc' = [ppc EXCEPT ![p] = "lock"]
    /\ fetched' = fetched + 1
    /\ net' = net + rhs
    /\ UNCHANGED <<handles, slots, locks, taken, consVars, fired, args>>

\* An inc that goes to the slot before its delta is in the cell.
IncNotifyFirst(p, h, rhs) ==
    /\ ppc[p] = "idle"
    /\ pself' = [pself EXCEPT ![p] = handles[h]]
    /\ ppc' = [ppc EXCEPT ![p] = "lock"]
    /\ fetched' = fetched + 1
    /\ net' = net + rhs
    /\ UNCHANGED <<handles, values, slots, locks, taken, consVars, fired, args>>

\* Counter::inc(&self, rhs), its first statement: the atomic fetch_add.
Inc(p, h, rhs) ==
    /\ ppc[p] = "idle"
    /\ values' = [values EXCEPT ![handles[h].value] = FetchAdd(@, rhs)]
    /\ pself' = [pself EXCEPT ![p] = handles[h]]
    /\ ppc' = [ppc EXCEPT ![p] = "lock"]
    /\ fetched' = fetched + 1
    /\ net' = net + rhs
    /\ UNCHANGED <<handles, slots, locks, taken, consVars, fired, args>>

\* A dec with the body of inc (fetch_add).
DecAsInc(p, h, rhs) ==
    /\ ppc[p] = "idle"
    /\ values' = [values EXCEPT ![handles[h].value] = FetchAdd(@, rhs)]
    /\ pself' = [pself EXCEPT ![p] = handles[h]]
    /\ ppc' = [ppc EXCEPT ![p] = "lock"]
    /\ fetched' = fetched + 1
    /\ net' = net - rhs
    /\ UNCHANGED <<handles, slots, locks, taken, consVars, fired, args>>

\* Counter::dec(&self, rhs), its first statement: the atomic fetch_sub.
Dec(p, h, rhs) ==
    /\ ppc[p] = "idle"
    /\ values' = [values EXCEPT ![handles[h].value] = FetchSub(@, rhs)]
    /\ pself' = [pself EXCEPT ![p] = handles[h]]
    /\ ppc' = [ppc EXCEPT ![p] = "lock"]
    /\ fetched' = fetched + 1
    /\ net' = net - rhs
    /\ UNCHANGED <<handles, slots, locks, taken, consVars, fired, args>>

\* impl AddAssign / SubAssign / Add / Sub: all delegate to inc / dec on the
\* same handle (Add and Sub move the handle in and return it).
AddAssign(p, h, rhs) == Inc(p, h, rhs)
SubAssign(p, h, rhs) == Dec(p, h, rhs)
Add(p, h, rhs) == AddAssign(p, h, rhs)
Sub(p, h, rhs) == SubAssign(p, h, rhs)

\* A take() that is made only when the value has reached the target.
LockTakeIfReached(p) ==
    /\ ppc[p] = "lock"
    /\ LET m == pself[p].waker
           reached == values[pself[p].value] >= pself[p].target
           found == IF reached THEN slots[m] ELSE None
       IN /\ locks[m] = 0
          /\ locks' = [locks EXCEPT ![m] = p]
          /\ taken' = [taken EXCEPT ![p] = found]
          /\ slots' = [slots EXCEPT ![m] = IF reached THEN None ELSE @]
          /\ ppc' = [ppc EXCEPT ![p] = IF found = None THEN "unlock" ELSE "wake"]
    /\ UNCHANGED <<handles, values, pself, consVars, fetched, net, fired, args>>

\* A lock that reads the slot and leaves the waker in it.
LockPeek(p) ==
    /\ ppc[p] = "lock"
    /\ LET m == pself[p].waker
       IN /\ locks[m] = 0
          /\ locks' = [locks EXCEPT ![m] = p]
          /\ taken' = [taken EXCEPT ![p] = slots[m]]
          /\ ppc' = [ppc EXCEPT ![p] = IF slots[m] = None THEN "unlock" ELSE "wake"]
    /\ UNCHANGED <<handles, values, slots, pself, consVars, fetched, net, fired, args>>

\* self.waker.lock().expect(MUST_LOCK).take(): the guard lives to the end of
\* the `if let`, so the mutex stays locked while the waker is woken.
LockTake(p) ==
    /\ ppc[p] = "lock"
    /\ LET m == pself[p].waker
       IN /\ locks[m] = 0
          /\ locks' = [locks EXCEPT ![m] = p]
          /\ taken' = [taken EXCEPT ![p] = slots[m]]
          /\ slots' = [slots EXCEPT ![m] = None]
          /\ ppc' = [ppc EXCEPT ![p] = IF slots[m] = None THEN "unlock" ELSE "wake"]
    /\ UNCHANGED <<handles, values, pself, consVars, fetched, net, fired, args>>

\* The waker is dropped instead of woken.
WakeDropped(p) ==
    /\ ppc[p] = "wake"
    /\ ppc' = [ppc EXCEPT ![p] = "unlock"]
    /\ UNCHANGED <<handles, heapVars, pself, taken, consVars, fetched, net, fired, args>>

\* A wake that reaches every task, not only the waker's.
WakeBroadcast(p) ==
    /\ ppc[p] = "wake"
    /\ notified' = [c \in Consumers |-> TRUE]
    /\ fired' = fired \cup {taken[p]}
    /\ ppc' = [ppc EXCEPT ![p] = "unlock"]
    /\ UNCHANGED <<handles, heapVars, pself, taken, cpc, cself, loaded, loadAt,
                   netAt, polls, result, fetched, net, args>>

\* waker.wake(): tells the executor to poll the task again.
Wake(p) ==
    /\ ppc[p] = "wake"
    /\ notified' = [notified EXCEPT ![taken[p].task] = TRUE]
    /\ fired' = fired \cup {taken[p]}
    /\ ppc' = [ppc EXCEPT ![p] = "unlock"]
    /\ UNCHANGED <<handles, heapVars, pself, taken, cpc, cself, loaded, loadAt,
                   netAt, polls, result, fetched, net, args>>

\* A return that leaves the mutex locked (the guard is leaked).
UnlockLeak(p) ==
    /\ ppc[p] = "unlock"
    /\ ppc' = [ppc EXCEPT ![p] = "idle"]
    /\ pself' = [pself EXCEPT ![p] = NoCounter]
    /\ taken' = [taken EXCEPT ![p] = None]
    /\ UNCHANGED <<handles, values, slots, locks, consVars, fetched, net, fired, args>>

\* End of the `if let`: the MutexGuard is dropped and inc / dec returns.
Unlock(p) ==
    /\ ppc[p] = "unlock"
    /\ locks' = [locks EXCEPT ![pself[p].waker] = 0]
    /\ ppc' = [ppc EXCEPT ![p] = "idle"]
    /\ pself' = [pself EXCEPT ![p] = NoCounter]
    /\ taken' = [taken EXCEPT ![p] = None]
    /\ UNCHANGED <<handles, values, slots, consVars, fetched, net, fired, args>>

(* ------------------------------- poll --------------------------------- *)

\* `counter.await` / timeout(.., counter).await: the Counter moves into the
\* awaiting task, which the executor polls a first time.
Await(c, h) ==
    /\ cpc[c] = "idle"
    /\ cpc' = [cpc EXCEPT ![c] = "started"]
    /\ cself' = [cself EXCEPT ![c] = handles[h]]
    /\ UNCHANGED <<handles, heapVars, prodVars, loaded, loadAt, netAt, polls,
                   result, notified, fetched, net, args>>

\* The executor polls a task when it is first awaited or after its waker was woken.
Runnable(c) == cpc[c] = "started" \/ (cpc[c] = "suspended" /\ notified[c])

\* A re-poll that tests the value read by the task's first poll again.
PollLoadOnce(c) ==
    /\ Runnable(c)
    /\ cpc' = [cpc EXCEPT ![c] = "loaded"]
    /\ loaded' = [loaded EXCEPT ![c] = IF polls[c] = 0 THEN values[cself[c].value] ELSE @]
    /\ loadAt' = [loadAt EXCEPT ![c] = fetched]
    /\ netAt' = [netAt EXCEPT ![c] = net]
    /\ polls' = [polls EXCEPT ![c] = @ + 1]
    /\ notified' = [notified EXCEPT ![c] = FALSE]
    /\ UNCHANGED <<handles, heapVars, prodVars, cself, result, fetched, net, args>>

\* let value = self.value.load(SeqCst);
PollLoad(c) ==
    /\ Runnable(c)
    /\ cpc' = [cpc EXCEPT ![c] = "loaded"]
    /\ loaded' = [loaded EXCEPT ![c] = values[cself[c].value]]
    /\ loadAt' = [loadAt EXCEPT ![c] = fetched]
    /\ netAt' = [netAt EXCEPT ![c] = net]
    /\ polls' = [polls EXCEPT ![c] = @ + 1]
    /\ notified' = [notified EXCEPT ![c] = FALSE]
    /\ UNCHANGED <<handles, heapVars, prodVars, cself, result, fetched, net, args>>

\* A test that compares with > instead of >=.
IsReadyStrict(value, target) == value > target

\* if value >= self.target
IsReady(value, target) == value >= target

\* A Ready that reports the target instead of the value read.
ReadyValueClamped(value, target) == target

\* Poll::Ready(value)
ReadyValue(value, target) == value

\* if value >= self.target { Poll::Ready(value) }
PollReady(c) ==
    /\ cpc[c] = "loaded"
    /\ IsReady(loaded[c], cself[c].target)
    /\ cpc' = [cpc EXCEPT ![c] = "ready"]
    /\ result' = [result EXCEPT ![c] = ReadyValue(loaded[c], cself[c].target)]
    /\ UNCHANGED <<handles, heapVars, prodVars, cself, loaded, loadAt, netAt,
                   polls, notified, fetched, net, args>>

\* A Pending branch that keeps a waker already stored (get_or_insert).
PollPendingKeepFirst(c) ==
    /\ cpc[c] = "loaded"
    /\ ~IsReady(loaded[c], cself[c].target)
    /\ LET m == cself[c].waker
       IN /\ locks[m] = 0
          /\ slots' = [slots EXCEPT ![m] = IF @ = None THEN Waker(c, polls[c]) ELSE @]
    /\ cpc' = [cpc EXCEPT ![c] = "suspended"]
    /\ UNCHANGED <<handles, values, locks, prodVars, cself, loaded, loadAt, netAt,
                   polls, result, notified, fetched, net, args>>

\* A Pending branch that returns without storing a waker.
PollPendingForgets(c) ==
    /\ cpc[c] = "loaded"
    /\ ~IsReady(loaded[c], cself[c].target)
    /\ locks[cself[c].waker] = 0
    /\ cpc' = [cpc EXCEPT ![c] = "suspended"]
    /\ UNCHANGED <<handles, heapVars, prodVars, cself, loaded, loadAt, netAt,
                   polls, result, notified, fetched, net, args>>

\* else { *self.waker.lock().expect(MUST_LOCK) = Some(cx.waker().clone()); Poll::Pending }
PollPending(c) ==
    /\ cpc[c] = "loaded"
    /\ ~IsReady(loaded[c], cself[c].target)
    /\ LET m == cself[c].waker
       IN /\ locks[m] = 0
          /\ slots' = [slots EXCEPT ![m] = Waker(c, polls[c])]
    /\ cpc' = [cpc EXCEPT ![c] = "suspended"]
    /\ UNCHANGED <<handles, values, locks, prodVars, cself, loaded, loadAt, netAt,
                   polls, result, notified, fetched, net, args>>

(* ------------------------- specifications ----------------------------- *)

\* Any producers, any consumers, any arguments: at most MaxOps calls.
Next ==
    \/ \E h \in Handles : Clone(h)
    \/ \E p \in Producers, h \in Handles, rhs \in Deltas :
          /\ fetched < MaxOps
          /\ \/ AddAssign(p, h, rhs)
             \/ SubAssign(p, h, rhs)
             \/ Add(p, h, rhs)
             \/ Sub(p, h, rhs)
    \/ \E p \in Producers : LockTake(p)
    \/ \E p \in Producers : Wake(p)
    \/ \E p \in Producers : Unlock(p)
    \/ \E c \in Consumers, h \in Handles : Await(c, h)
    \/ \E c \in Consumers : PollLoad(c)
    \/ \E c \in Consumers : PollReady(c)
    \/ \E c \in Consumers : PollPending(c)

Spec == Init /\ [][Next]_vars

\* One statement of a scripted producer task.
Apply(p, h, s) ==
    CASE s.op = "add_assign" -> AddAssign(p, h, s.rhs)
      [] s.op = "sub_assign" -> SubAssign(p, h, s.rhs)
      [] s.op = "add" -> Add(p, h, s.rhs)
      [] s.op = "sub" -> Sub(p, h, s.rhs)

\* One producer task that runs `script` statement by statement, each call
\* returning before the next begins; consumers and clones as in Next.
Scripted(script) ==
    \/ \E h \in Handles : Clone(h)
    \/ \E h \in Handles :
          /\ fetched < Len(script)
          /\ Apply(1, h, script[fetched + 1])
    \/ LockTake(1)
    \/ Wake(1)
    \/ Unlock(1)
    \/ \E c \in Consumers, h \in Handles : Await(c, h)
    \/ \E c \in Consumers : PollLoad(c)
    \/ \E c \in Consumers : PollReady(c)
    \/ \E c \in Consumers : PollPending(c)

InitTest == InitWith(To(TestTarget))

NextA == Scripted(ScriptA)
SpecA == InitTest /\ [][NextA]_vars

NextB == Scripted(ScriptB)
SpecB == InitTest /\ [][NextB]_vars

NextUp == Scripted(ScriptUp)
SpecUp == InitTest /\ [][NextUp]_vars

\* One awaiting task (consumer 1), any producers: Next without consumer 2.
NextOne ==
    \/ \E h \in Handles : Clone(h)
    \/ \E p \in Producers, h \in Handles, rhs \in Deltas :
          /\ fetched < MaxOps
          /\ \/ AddAssign(p, h, rhs)
             \/ SubAssign(p, h, rhs)
             \/ Add(p, h, rhs)
             \/ Sub(p, h, rhs)
    \/ \E p \in Producers : LockTake(p)
    \/ \E p \in Producers : Wake(p)
    \/ \E p \in Producers : Unlock(p)
    \/ \E h \in Handles : Await(1, h)
    \/ PollLoad(1)
    \/ PollReady(1)
    \/ PollPending(1)

\* Scheduling: a producer thread inside inc / dec keeps running to the end of
\* the call, and the executor polls a task that is runnable.  Nothing obliges
\* a producer to make another call, a task to be awaited, or a clone to be made.
Fairness ==
    /\ \A p \in Producers :
          WF_vars(LockTake(p)) /\ WF_vars(Wake(p)) /\ WF_vars(Unlock(p))
    /\ WF_vars(PollLoad(1))
    /\ WF_vars(PollReady(1))
    /\ WF_vars(PollPending(1))

FairSpec == Init /\ [][NextOne]_vars /\ Fairness

\* time::timeout(.., counter) elapses: the suspended Counter future is
\* dropped.  Counter has no Drop impl, so the waker it stored stays in the
\* slot, and the task is never polled again.
Drop(c) ==
    /\ cpc[c] = "suspended"
    /\ cpc' = [cpc EXCEPT ![c] = "dropped"]
    /\ UNCHANGED <<handles, heapVars, prodVars, cself, loaded, loadAt, netAt,
                   polls, result, notified, fetched, net, args>>

\* Next with awaits that may be dropped while suspended.
NextDrop ==
    \/ Next
    \/ \E c \in Consumers : Drop(c)

SpecDrop == Init /\ [][NextDrop]_vars

\* Every usize value, as the counter's initial value and as a delta.
Usize == 0 .. MaxUsize

InitWrap ==
    \E from \in Usize, target \in Targets : InitWith(New(from, target))

\* One producer makes `count += d` and then `count -= d`, or `count -= d` and
\* then `count += d`, for any d; one task awaits the counter meanwhile.
NextWrap ==
    \/ \E h \in Handles, d \in Usize :
          /\ fetched = 0
          /\ \/ AddAssign(1, h, d)
             \/ SubAssign(1, h, d)
    \/ \E h \in Handles :
          /\ fetched = 1 /\ net >= 0
          /\ SubAssign(1, h, net)
    \/ \E h \in Handles :
          /\ fetched = 1 /\ net <= 0
          /\ AddAssign(1, h, 0 - net)
    \/ LockTake(1)
    \/ Wake(1)
    \/ Unlock(1)
    \/ \E h \in Handles : Await(1, h)
    \/ PollLoad(1)
    \/ PollReady(1)
    \/ PollPending(1)

SpecWrap == InitWrap /\ [][NextWrap]_vars

(* ------------------------------ claims -------------------------------- *)

\* The one value cell and the target of the origin.
Cell == values[handles[1].value]
Target == args.target
Polled(c) == cpc[c] \in {"loaded", "suspended", "ready"}

\* C1: a single consumer awaits the counter; if the value is eventually
\* >= target for good, the await eventually resolves (fair scheduling of the
\* producers' calls and of the consumer's polls).
C1_EventuallyResolves ==
    (<>(cpc[1] # "idle") /\ <>[](Cell >= Target)) => <>(cpc[1] = "ready")

\* C2: an await that resolved did so with the value its poll read from the
\* cell, and that value is >= target; a poll that returned Pending read a
\* value below target.
C2_ResolvesWithValueRead ==
    \A c \in Consumers :
        /\ (Polled(c) /\ loadAt[c] = fetched) => loaded[c] = values[cself[c].value]
        /\ cpc[c] = "ready" => (result[c] = loaded[c] /\ result[c] >= cself[c].target)
        /\ cpc[c] = "suspended" => loaded[c] < cself[c].target

\* A consumer that was Pending, was woken, and resolved above the target.
C2_Witness ==
    \E c \in Consumers :
        cpc[c] = "ready" /\ polls[c] >= 2 /\ result[c] > cself[c].target

\* C3 as stated: from 0 and target > 0, an await resolves only if the net
\* mutation applied when it read, as a mathematical integer, is >= target.
C3_NetReachesTarget ==
    \A c \in Consumers :
        (args.from = 0 /\ Target > 0 /\ cpc[c] = "ready") => netAt[c] >= Target

\* C3 amended: from 0 and target > 0, an await resolves only if the net
\* mutation applied when it read, reduced modulo 2^w, is >= target, and it
\* resolves with that residue.
C3_NetModuloReachesTarget ==
    \A c \in Consumers :
        (args.from = 0 /\ Target > 0 /\ cpc[c] = "ready") =>
            (netAt[c] % Modulus >= Target /\ result[c] = netAt[c] % Modulus)

\* An await from 0 that resolved although the net mutation is negative.
C3_Witness ==
    \E c \in Consumers :
        args.from = 0 /\ Target > 0 /\ cpc[c] = "ready" /\ netAt[c] < 0

\* C4: whatever the interleaving of the producers' calls, through whatever
\* clones, the cell holds from + increments - decrements (in usize
\* arithmetic) and every poll reads exactly that.
C4_MonotonicVisibility ==
    /\ Cell = (args.from + net) % Modulus
    /\ \A c \in Consumers :
          polls[c] > 0 => loaded[c] = (args.from + netAt[c]) % Modulus

\* Both calls have returned, a clone exists, and a poll read after them.
C4_Witness ==
    /\ fetched >= 2 /\ net # 0 /\ Len(handles) >= 2
    /\ \A p \in Producers : ppc[p] = "idle"
    /\ \E c \in Consumers : Polled(c) /\ loadAt[c] = fetched

\* C5: the origin and every clone, and every call and await made through
\* them, refer to the one value cell and the one waker slot; what a poll
\* reads is what every handle's cell holds.
C5_ClonesShareState ==
    /\ Len(values) = 1 /\ Len(slots) = 1
    /\ \A h \in Handles :
          handles[h].value = handles[1].value /\ handles[h].waker = handles[1].waker
    /\ \A p \in Producers : ppc[p] # "idle" =>
          (pself[p].value = handles[1].value /\ pself[p].waker = handles[1].waker)
    /\ \A c \in Consumers : cpc[c] # "idle" =>
          /\ cself[c].value = handles[1].value /\ cself[c].waker = handles[1].waker
          /\ \A h \in Handles :
                (Polled(c) /\ loadAt[c] = fetched) => loaded[c] = values[handles[h].value]

\* A clone exists, and an await that stored its waker was woken by a call
\* and then resolved.
C5_Witness ==
    /\ Len(handles) >= 2 /\ fetched >= 1
    /\ \E c \in Consumers : cpc[c] = "ready" /\ polls[c] >= 2

\* C6: one increment only, from below the target to strictly above it: the
\* poll of a consumer woken by it reads the overshot value, is not Pending,
\* and resolves with the overshot value, not with the target.
C6_OvershootResolution ==
    \A c \in Consumers :
        (/\ fetched = 1 /\ net > 0
         /\ args.from < Target /\ Cell > Target
         /\ polls[c] >= 2 /\ Polled(c)) =>
            /\ loaded[c] = Cell
            /\ cpc[c] # "suspended"
            /\ cpc[c] = "ready" => (result[c] = Cell /\ result[c] > Target)

\* A consumer suspended below the target, woken by the overshooting
\* increment, has resolved.
C6_Witness ==
    \E c \in Consumers :
        /\ fetched = 1 /\ net > 0 /\ args.from < Target /\ Cell > Target
        /\ polls[c] = 2 /\ cpc[c] = "ready"

\* C10: every handle, and the Counter of every call and await, has the
\* target the origin was constructed with, in every reachable state.
C10_TargetImmutable ==
    /\ \A h \in Handles : handles[h].target = Target
    /\ \A p \in Producers : ppc[p] # "idle" => pself[p].target = Target
    /\ \A c \in Consumers : cpc[c] # "idle" => cself[c].target = Target

\* A clone exists, calls (a decrement among them) were made and an await resolved.
C10_Witness ==
    /\ Len(handles) >= 2 /\ fetched >= 2 /\ net < 0
    /\ \E c \in Consumers : cpc[c] = "ready"

\* The value after the first n statements of a script run from 0.
RECURSIVE RunningSum(_, _)
RunningSum(script, n) ==
    IF n = 0 THEN 0
    ELSE IF script[n].op \in {"add", "add_assign"}
         THEN RunningSum(script, n - 1) + script[n].rhs
         ELSE RunningSum(script, n - 1) - script[n].rhs

\* C7 (Scenario B: target 10, from 0, +5 +5 +5 -6 +3): an await that has
\* resolved stays resolved with its result whatever the value does later;
\* a poll that reads after the decrement reads 9 or 12, is Pending at 9 and
\* can only resolve with 12; no await ever resolves with 9.
C7_ResolutionPerPoll ==
    /\ [][\A c \in Consumers :
            cpc[c] = "ready" => (cpc'[c] = "ready" /\ result'[c] = result[c])]_vars
    /\ [](\A c \in Consumers :
            /\ cpc[c] = "ready" => result[c] # 9
            /\ (Polled(c) /\ loadAt[c] >= 4) =>
                  /\ loaded[c] \in {9, 12}
                  /\ loaded[c] = 9 => cpc[c] # "ready"
                  /\ cpc[c] = "ready" => result[c] = 12)

\* The first await resolved before the decrement and is still resolved;
\* the second first polled at 9 (Pending) and resolved with 12.
C7_Witness ==
    /\ cpc[1] = "ready" /\ result[1] \in {10, 15} /\ loadAt[1] <= 3
    /\ cpc[2] = "ready" /\ result[2] = 12 /\ polls[2] >= 2

C9_ScenarioA ==
    \A c \in Consumers :
        cpc[c] = "ready" => (result[c] = 10 /\ loadAt[c] = 5 /\ fetched = 5)

\* An await that was Pending during the increments has resolved.
C9_Witness ==
    \E c \in Consumers : cpc[c] = "ready" /\ polls[c] >= 2

\* The one waker slot, and the steps of a call and of a poll as seen from outside.
Slot == slots[handles[1].waker]
Took(p) == ppc[p] = "lock" /\ ppc'[p] # "lock"
Fired(p) == ppc[p] = "wake" /\ ppc'[p] = "unlock"
Suspends(c) == cpc[c] = "loaded" /\ cpc'[c] = "suspended"
Idle == \A p \in Producers : ppc[p] = "idle"

\* A suspended consumer whose waker is neither in the slot nor in a call's hands.
Evicted(c) ==
    /\ cpc[c] = "suspended" /\ ~notified[c]
    /\ Slot.task # c
    /\ \A p \in Producers : taken[p].task # c

\* C11: a Pending poll puts its own waker in the slot, whatever was there,
\* and wakes nobody; a consumer whose waker was overwritten stays suspended
\* for good; a call that fires a waker wakes that waker's task only.
C11_SingleSlotEviction ==
    /\ [][\A c \in Consumers :
            Suspends(c) => (Slot' = Waker(c, polls[c]) /\ notified' = notified)]_vars
    /\ [][\A c \in Consumers : Evicted(c) => Evicted(c)']_vars
    /\ [][\A p \in Producers : Fired(p) =>
            \A c \in Consumers : c # taken[p].task => notified'[c] = notified[c]]_vars

\* Both consumers suspended, consumer 2 last; the single call made woke
\* consumer 2, which resolved; consumer 1 is left suspended with value >= target.
C11_Witness ==
    /\ fetched = 1 /\ Idle /\ Cell >= Target
    /\ Evicted(1) /\ Slot = None
    /\ cpc[2] = "ready" /\ polls[2] = 2

\* Scenario C: the consumer is suspended with its waker stored, the value is
\* already >= target, and no call is in progress.
LostWakeup ==
    /\ cpc[1] = "suspended" /\ ~notified[1]
    /\ Slot = Waker(1, polls[1])
    /\ Cell >= Target
    /\ Idle

\* C12 (one consumer): from the lost-wakeup state nothing changes for the
\* consumer unless another inc / dec is made; the first call to lock the
\* slot while the waker is stored takes it and fires it, and once a call
\* is under way the suspended consumer is woken.
C12_LostWakeupWindow ==
    /\ [][LostWakeup => (LostWakeup' \/ fetched' = fetched + 1)]_vars
    /\ [][\A p \in Producers :
            /\ (Took(p) /\ Slot.task = 1) => (taken'[p] = Slot /\ ppc'[p] = "wake")
            /\ (Fired(p) /\ taken[p].task = 1) => notified'[1]]_vars
    /\ (cpc[1] = "suspended" /\ ~notified[1] /\ \E p \in Producers : ppc[p] = "lock")
          ~> (notified[1] \/ cpc[1] # "suspended")

\* The state of Scenario C after one call by one producer: the poll read
\* below the target, the call crossed it and found the slot empty, the
\* poll stored its waker.
C12_Witness ==
    LostWakeup /\ fetched = 1 /\ polls[1] = 1 /\ loadAt[1] = 0 /\ fired = {}

\* The cell holds the deltas of every call made so far, those of the calls
\* still on their way to the slot included.
Applied == Cell = (args.from + net) % Modulus

\* C13: a call is past its update of the value when it locks the slot and
\* when it wakes a waker, and neither step touches the value; the call goes
\* on to wake exactly when the slot it locked held a waker, which it then
\* holds, and it leaves the slot empty; a task is woken only by such a call.
C13_UpdateBeforeNotify ==
    /\ [][\A p \in Producers :
            (Took(p) \/ Fired(p)) => (Applied /\ Applied' /\ values' = values)]_vars
    /\ [][\A p \in Producers : Took(p) =>
            /\ (ppc'[p] = "wake") <=> (Slot # None)
            /\ (ppc'[p] = "unlock") <=> (Slot = None)
            /\ taken'[p] = Slot
            /\ Slot' = None
            /\ notified' = notified /\ fired' = fired]_vars
    /\ [][\A c \in Consumers : (~notified[c] /\ notified'[c]) =>
            \E p \in Producers : Fired(p) /\ taken[p].task = c /\ taken[p] # None]_vars

\* A call that crossed the target is about to wake the waker it took from
\* the slot; the slot is empty and the cell holds the call's delta.
C13_Witness ==
    \E p \in Producers :
        /\ ppc[p] = "wake" /\ taken[p] = Waker(1, 1) /\ Slot = None
        /\ fetched = 1 /\ net > 0 /\ Cell = net /\ Cell >= Target
        /\ cpc[1] = "suspended" /\ loadAt[1] = 0

\* C14: a waker held by a call is held by no other call and is no longer in
\* the slot; a call wakes a waker that was never woken before, one per call;
\* a call that locks the slot after the waker was taken wakes nothing.
C14_ExactlyOnce ==
    /\ [](\A p \in Producers : taken[p] # None =>
            /\ Slot # taken[p]
            /\ \A q \in Producers \ {p} : taken[q] # taken[p])
    /\ [](Cardinality(fired) <= fetched)
    /\ [][\A p \in Producers : Fired(p) =>
            /\ taken[p] \notin fired
            /\ fired' = fired \cup {taken[p]}
            /\ \A q \in Producers \ {p} : ~Fired(q)]_vars
    /\ [][\A p \in Producers : (Took(p) /\ Slot = None) =>
            (ppc'[p] = "unlock" /\ taken'[p] = None)]_vars
    /\ [][\A p \in Producers : (ppc[p] = "unlock" /\ ppc'[p] # "unlock") =>
            (ppc'[p] = "idle" /\ fired' = fired)]_vars

\* Two calls were made against the one waker stored by the first poll: one
\* took it and woke it, the other locked the slot after that and found
\* nothing.
C14_Witness ==
    /\ fetched = 2 /\ fired = {Waker(1, 1)}
    /\ cpc[1] = "suspended" /\ polls[1] = 1 /\ notified[1]
    /\ ppc[1] = "idle"
    /\ ppc[2] = "unlock" /\ taken[2] = None /\ Slot = None

\* C15 (one consumer): a call that finds a waker in the slot wakes it,
\* whatever the value is; the woken task is polled again, and a poll that
\* read a value below the target stores a waker never woken before, so a
\* woken task ends resolved or suspended with its newest waker in the slot.
C15_WakeWithoutRecheck ==
    /\ [][\A p \in Producers :
            /\ (Took(p) /\ Slot # None) => (ppc'[p] = "wake" /\ taken'[p] = Slot)
            /\ Fired(p) => notified'[taken[p].task]]_vars
    /\ [][Suspends(1) =>
            /\ loaded[1] < Target
            /\ Slot' = Waker(1, polls[1])
            /\ Slot' \notin fired]_vars
    /\ (cpc[1] = "suspended" /\ notified[1])
          ~> (cpc[1] = "ready"
                \/ (cpc[1] = "suspended" /\ ~notified[1] /\ Slot = Waker(1, polls[1])))

\* Two calls that left the value at 0, below the target, each woke the task;
\* after its third poll the task is suspended with its third waker stored.
C15_Witness ==
    /\ fetched = 2 /\ net = 0 /\ Cell = 0 /\ Cell < Target
    /\ fired = {Waker(1, 1), Waker(1, 2)}
    /\ cpc[1] = "suspended" /\ polls[1] = 3 /\ ~notified[1]
    /\ Slot = Waker(1, 3)

\* The task's re-poll after a wake: it is suspended and notified, then loads.
Repolls(c) == cpc[c] = "suspended" /\ notified[c] /\ cpc'[c] = "loaded"

\* C16 (one consumer): a call that locks the slot while the suspended task's
\* waker is stored and the value is >= target takes the waker and wakes the
\* task; the re-poll reads the value of that moment and resolves with it if
\* it is >= target; so from the wake on, the task resolves unless the value
\* is lowered below the target first.
C16_RegisteredWaiterWoken ==
    /\ [][\A p \in Producers : (Took(p) /\ Slot.task = 1 /\ Cell >= Target) =>
            (ppc'[p] = "wake" /\ taken'[p] = Slot)]_vars
    /\ [][Repolls(1) => (loaded'[1] = Cell /\ Cell' = Cell)]_vars
    /\ [](cpc[1] = "loaded" => (IsReady(loaded[1], Target) <=> ENABLED PollReady(1)))
    /\ (\E p \in Producers : ppc[p] = "wake" /\ taken[p].task = 1 /\ Cell >= Target)
          ~> (cpc[1] = "ready" \/ Cell < Target)

\* The task was suspended below the target, one call crossed the target and
\* woke its first waker, and its second poll resolved with the value.
C16_Witness ==
    /\ fetched = 1 /\ fired = {Waker(1, 1)}
    /\ cpc[1] = "ready" /\ polls[1] = 2
    /\ result[1] = Cell /\ Cell >= Target

\* A waker in the slot or in a call's hands whose await was dropped.
Stale(w) == w # None /\ cpc[w.task] = "dropped"

\* C17: a call that takes a stale waker empties the slot and touches nothing
\* else; waking it changes no value, slot or handle and no task but the
\* dropped one, which stays dropped; the value holds exactly the deltas of
\* the calls made; a later poll that suspends stores its waker over a stale
\* one as it would in an empty slot.
C17_StaleTokenHarmless ==
    /\ [][\A p \in Producers : (Took(p) /\ Stale(Slot)) =>
            /\ Slot' = None /\ taken'[p] = Slot
            /\ UNCHANGED <<handles, values, consVars, fetched, net, fired>>]_vars
    /\ [][\A p \in Producers : (Fired(p) /\ Stale(taken[p])) =>
            /\ UNCHANGED <<handles, heapVars, cpc, cself, loaded, polls, result,
                           fetched, net>>
            /\ \A c \in Consumers \ {taken[p].task} : notified'[c] = notified[c]]_vars
    /\ [][\A c \in Consumers : cpc[c] = "dropped" =>
            /\ cpc'[c] = "dropped"
            /\ loaded'[c] = loaded[c] /\ polls'[c] = polls[c]
            /\ result'[c] = result[c]]_vars
    /\ [][\A c \in Consumers : (Suspends(c) /\ Stale(Slot)) =>
            Slot' = Waker(c, polls[c])]_vars
    /\ [](Applied)

\* The first await was dropped with its waker stored; a call took and woke
\* the stale waker; the await made after that was suspended, woken by the
\* next call and resolved.
C17_Witness ==
    /\ cpc[1] = "dropped" /\ polls[1] = 1 /\ notified[1]
    /\ fired = {Waker(1, 1), Waker(2, 1)}
    /\ fetched = 2 /\ Idle
    /\ cpc[2] = "ready" /\ polls[2] = 2 /\ result[2] = Cell

\* C18: the value is always a usize, equal to the initial value plus the
\* deltas added minus the deltas subtracted modulo 2^w, and no call is
\* refused; after += d then -= d, or -= d then += d, it is the initial value
\* again, whatever the value in between.
C18_ConsistentWraparound ==
    /\ Cell \in Usize
    /\ Applied
    /\ (fetched = 2 /\ net = 0) => Cell = args.from
    /\ (fetched = 0 /\ ppc[1] = "idle") =>
          \A d \in Usize : ENABLED AddAssign(1, 1, d) /\ ENABLED SubAssign(1, 1, d)

\* `+= d` overflowed: the poll made between the two calls read a value
\* smaller than the initial one; `-= d` brought the initial value back.
C18_Witness ==
    /\ fetched = 2 /\ net = 0 /\ Idle
    /\ loadAt[1] = 1 /\ netAt[1] > 0 /\ loaded[1] < args.from
    /\ loaded[1] = (args.from + netAt[1]) - Modulus
    /\ Cell = args.from

\* The mutex of the slot, and the threads that wait for it.
Lock == locks[handles[1].waker]
WaitsForLock(p) == ppc[p] = "lock"
PollWaitsForLock(c) == cpc[c] = "loaded" /\ ~IsReady(loaded[c], cself[c].target)

\* C19: every call returns, with the lock released, and a poll that wants
\* the lock gets past it; the lock is held only by a call between its take()
\* and its return, wake() is made with the lock held and does not wait for
\* anything; whenever a thread waits for the lock, the holder, or with the
\* lock free a waiting thread, can take its next step.
C19_MutationsComplete ==
    /\ \A p \in Producers : (ppc[p] # "idle") ~> (ppc[p] = "idle" /\ Lock # p)
    /\ PollWaitsForLock(1) ~> (cpc[1] = "suspended")
    /\ [](\A p \in Producers : (Lock = p) <=> (ppc[p] \in {"wake", "unlock"}))
    /\ [](\A p \in Producers :
            /\ ppc[p] = "wake" => ENABLED Wake(p)
            /\ ppc[p] = "unlock" => ENABLED Unlock(p)
            /\ (WaitsForLock(p) /\ Lock = 0) => ENABLED LockTake(p))
    /\ [](\A c \in Consumers : (PollWaitsForLock(c) /\ Lock = 0) => ENABLED PollPending(c))
    /\ [][\A p \in Producers : Fired(p) => (Lock = p /\ Lock' = p)]_vars

\* A call holds the lock and is about to wake the waker it took, while the
\* other call waits for the lock.
C19_Witness ==
    /\ ppc[1] = "wake" /\ Lock = 1 /\ taken[1] = Waker(1, 1)
    /\ WaitsForLock(2)
    /\ cpc[1] = "suspended" /\ ~notified[1]

\* The one task is suspended and no wake() was made for it since its last poll.
Unwoken == cpc[1] = "suspended" /\ ~notified[1]

\* A call has taken the task's newest waker out of the slot and has not
\* woken it yet.
InHand(p) == ppc[p] = "wake" /\ taken[p] = Waker(1, polls[1])

\* C20 as stated (one consumer, no dropped await): whenever the task is
\* suspended and not woken, its waker is in the slot.
C20_SuspendedHasToken == Unwoken => Slot = Waker(1, polls[1])

\* C20, amended: whenever the task is suspended and not woken, its newest
\* waker is in the slot or in the hands of the one call that took it and is
\* about to wake it; a call that locks the slot while the task is suspended
\* and not woken takes that waker; and once a call is on its way to the slot
\* or holds the waker, the task is woken.
C20_SuspendedRegisteredOrTaken ==
    /\ [](Unwoken =>
            \/ Slot = Waker(1, polls[1]) /\ \A p \in Producers : ~InHand(p)
            \/ Slot = None /\ \E p \in Producers :
                  InHand(p) /\ \A q \in Producers \ {p} : ~InHand(q))
    /\ [][\A p \in Producers : (Took(p) /\ Unwoken) =>
            (taken'[p] = Waker(1, polls[1]) /\ InHand(p)')]_vars
    /\ (Unwoken /\ \E p \in Producers : ppc[p] \in {"lock", "wake"})
          ~> (notified[1] \/ cpc[1] # "suspended")

\* The task is suspended and not yet woken, the slot is empty: the call that
\* crossed the target holds the task's waker between take() and wake().
C20_Witness ==
    /\ Unwoken /\ Slot = None /\ polls[1] = 1
    /\ InHand(1) /\ fetched = 1 /\ Cell >= Target

====
